---- MODULE Spec2Model ----
(***************************************************************************)
(* A model of cloudflare-setup.py: invocations of the script (main under   *)
(* the top-level try/except), the four operations main calls, the request  *)
(* helper, and the provider's custom-firewall ruleset the calls act on.    *)
(* Every HTTP call and every prompt has a nondeterministic outcome.        *)
(***************************************************************************)
EXTENDS Integers, Sequences, FiniteSets, TLC

\* ------------------------------------------------------------------ bounds

\* Longest ruleset the provider may hold when an invocation of the script
\* starts (the first one, or one that follows another).
MaxPrior == 1

\* Longest ruleset the provider is modelled to hold: a POST is refused
\* once the ruleset is that long.
MaxRuleset == 6

\* ------------------------------------------------------- program constants

\* len(SECURITY_RULES)
NumRules == 5

\* len(settings) in configure_security_settings
NumSettings == 5


TOKEN_PLACEHOLDER == "YOUR_API_TOKEN_HERE"

ZONE_PLACEHOLDER == "YOUR_ZONE_ID_HERE"

\* Values of the two module constants: the shipped placeholder, or an edit.
Tokens == {TOKEN_PLACEHOLDER, "token"}

Zones == {ZONE_PLACEHOLDER, "zone"}

Flags == {"--list", "--delete", "--setup", "--force"}

\* SECURITY_RULES, each rule named by its 1-based position in the table.
SECURITY_RULES == [k \in 1..NumRules |-> k]

\* A rule of the provider's ruleset that is not a rule of the table.
ForeignRule == 0

\* ---------------------------------------------------------- confirmation

\* A line typed at a prompt is a sequence of characters.
Answers ==
    { <<"y", "e", "s">>, <<"Y", "E", "S">>, <<"Y", "e", "s">>,
      <<"n", "o">>, <<"y">>, <<>>, <<"y", "e", "s", " ">> }

\* The value of `confirm` before any prompt was answered.
Unset == <<"unset">>

\* str.lower() on one character of the alphabet of Answers.
LowerChar(c) ==
    CASE c = "Y" -> "y"
      [] c = "E" -> "e"
      [] c = "S" -> "s"
      [] c = "N" -> "n"
      [] c = "O" -> "o"
      [] OTHER -> c

\* str.lower()
Lower(s) == [k \in 1..Len(s) |-> LowerChar(s[k])]

\* The lines input() can come to: a typed line, end of input, an interrupt.
EofInput == <<"EOF">>

IntInput == <<"^C">>

Inputs == Answers \cup {EofInput, IntInput}

\* A looser test: any line that starts with "y" or "Y".
IsYesPrefix(s) == Len(s) > 0 /\ Lower(s)[1] = "y"

\* confirm.lower() == 'yes'
IsYes(s) == Lower(s) = <<"y", "e", "s">>

\* ------------------------------------------------------------ make_request

\* What one HTTP call can come to:
\*   ok         the provider performs it and answers success: true
\*   api_error  the provider refuses it: success false or absent
\*   transport  the call never reaches the provider (requests raises)
\*   lost       the provider performs it, the answer is lost (requests raises)
\*   interrupt  a keyboard interrupt arrives while the call blocks
Outcomes == {"ok", "api_error", "transport", "lost", "interrupt"}

\* The outcomes in which the provider has performed the call.
Performed(o) == o \in {"ok", "lost"}

\* What make_request raises: nothing (it returns the result), an Exception
\* (line 103, or the transport's), or KeyboardInterrupt.
Raises(o) ==
    CASE o = "ok" -> "none"
      [] o = "api_error" -> "Exception"
      [] o \in {"transport", "lost"} -> "Exception"
      [] OTHER -> "KeyboardInterrupt"

\* A handler that catches nothing (the call made outside any try).
ExceptNothing(raised) == FALSE

\* `except Exception as e:` catches Exception, not KeyboardInterrupt.
ExceptException(raised) == raised = "Exception"

\* `except:` catches whatever was raised.
BareExcept(raised) == raised # "none"

\* The provider's ruleset after a call on it.
Provider(method, body, o, rules) ==
    IF ~Performed(o) THEN rules
    ELSE CASE method = "PUT" -> body
           [] method = "POST" -> Append(rules, body)
           [] OTHER -> rules

\* The provider performs a POST only while the ruleset has room.
Possible(method, o, rules) ==
    (method = "POST" /\ Performed(o)) => Len(rules) < MaxRuleset

\* ------------------------------------------------------------------- state

VARIABLES
    apiToken,     \* CLOUDFLARE_API_TOKEN
    zoneId,       \* ZONE_ID
    args,         \* sys.argv[1:], as the set of flags it contains
    pc,           \* where the invocation is
    branch,       \* the branch of main's if/elif chain that was taken
    i,            \* the loop index of add_security_rules / configure_security_settings
    rulesetId,    \* ruleset_id in add_security_rules: "None" or "id"
    confirm,      \* the line read at the confirmation prompt
    ruleset,      \* the provider's custom-firewall ruleset
    callLog,      \* the HTTP calls issued by this invocation, <<method, item>>
    lastCall,     \* the last call: operation, outcome, what was printed for it
    listOut,      \* what list_existing_rules printed last, in any invocation
    endMsg,       \* the closing message of the invocation
    exitCode,     \* the exit status, -1 while running
    interrupted,  \* a keyboard interrupt was raised in this invocation
    inputFailed,  \* input() raised EOFError in this invocation
    addBase,      \* length of the ruleset when add_security_rules started
    opTrail       \* the last two operations run, over all invocations

vars ==
    << apiToken, zoneId, args, pc, branch, i, rulesetId, confirm, ruleset,
       callLog, lastCall, listOut, endMsg, exitCode, interrupted, inputFailed,
       addBase, opTrail >>

NoCall == [op |-> "none", endpoint |-> "none", outcome |-> "none", report |-> "none"]

NoOp == [op |-> "none", ok |-> FALSE, before |-> 0]

\* Sequences over S of length at most n.
SeqUpTo(S, n) == UNION { [1..k -> S] : k \in 0..n }

PriorRulesets == SeqUpTo({ForeignRule} \cup (1..NumRules), MaxPrior)

Init ==
    /\ apiToken \in Tokens
    /\ zoneId \in Zones
    /\ args \in SUBSET Flags
    /\ pc = "main"
    /\ branch = "none"
    /\ i = 0
    /\ rulesetId = "None"
    /\ confirm = Unset
    /\ ruleset \in PriorRulesets
    /\ callLog = <<>>
    /\ lastCall = NoCall
    /\ listOut = <<"none", 0>>
    /\ endMsg = "none"
    /\ exitCode = -1
    /\ interrupted = FALSE
    /\ inputFailed = FALSE
    /\ addBase = 0
    /\ opTrail = <<NoOp, NoOp>>

\* ------------------------------------------------------ top-level handler

\* The exit status the __main__ block gives to what main raised.
ExitStatus(raised) ==
    CASE raised = "KeyboardInterrupt" -> 0
      [] raised = "Exception" -> 1
      [] OTHER -> 0

\* The message the __main__ block prints for what main raised.
ExitMessage(raised) ==
    CASE raised = "KeyboardInterrupt" -> "cancelled_by_user"
      [] raised = "Exception" -> "fatal"
      [] OTHER -> "none"

\* An exception leaves main and reaches the __main__ block.
Propagate(raised) ==
    /\ pc' = "exit"
    /\ exitCode' = ExitStatus(raised)
    /\ endMsg' = ExitMessage(raised)

\* The operation `op` has run; `ok` is whether it reported success.
Trail(op, ok) == << opTrail[2], [op |-> op, ok |-> ok, before |-> Len(ruleset)] >>

\* What an operation prints for a call: its success line when make_request
\* returned, its failure line when its handler caught what was raised.
Report(raised, caught) ==
    CASE raised = "none" -> "success"
      [] caught -> "error"
      [] OTHER -> "none"

Call(op, endpoint, o, report) ==
    [op |-> op, endpoint |-> endpoint, outcome |-> o, report |-> report]

\* ------------------------------------------------------------------- main

\* The check written with `and`: both credentials left as shipped.
ConfigInvalidBoth ==
    apiToken = TOKEN_PLACEHOLDER /\ zoneId = ZONE_PLACEHOLDER

\* The condition of the pre-flight check.
ConfigInvalid ==
    apiToken = TOKEN_PLACEHOLDER \/ zoneId = ZONE_PLACEHOLDER

\* main up to the end of the pre-flight check.
Validate ==
    /\ pc = "main"
    /\ IF ConfigInvalid
       THEN /\ pc' = "exit"
            /\ exitCode' = 1
            /\ endMsg' = "config_error"
       ELSE /\ pc' = "dispatch"
            /\ UNCHANGED <<exitCode, endMsg>>
    /\ UNCHANGED << apiToken, zoneId, args, branch, i, rulesetId, confirm,
                    ruleset, callLog, lastCall, listOut, interrupted,
                    inputFailed, addBase, opTrail >>

\* The chain with --setup tested before --delete.
BranchOfSetupFirst(a) ==
    CASE "--list" \in a -> "list"
      [] "--list" \notin a /\ "--setup" \in a -> "setup"
      [] "--list" \notin a /\ "--setup" \notin a /\ "--delete" \in a -> "delete"
      [] OTHER -> "usage"

\* The branch main's if/elif/else chain takes.
BranchOf(a) ==
    CASE "--list" \in a -> "list"
      [] "--list" \notin a /\ "--delete" \in a -> "delete"
      [] "--list" \notin a /\ "--delete" \notin a /\ "--setup" \in a -> "setup"
      [] OTHER -> "usage"

\* Every branch but the usage text starts with list_existing_rules.
Dispatch ==
    /\ pc = "dispatch"
    /\ branch' = BranchOf(args)
    /\ IF branch' = "usage"
       THEN pc' = "return" /\ endMsg' = "usage"
       ELSE pc' = "list" /\ UNCHANGED endMsg
    /\ UNCHANGED << apiToken, zoneId, args, i, rulesetId, confirm, ruleset,
                    callLog, lastCall, listOut, exitCode, interrupted,
                    inputFailed, addBase, opTrail >>

\* Where main goes on when list_existing_rules has returned.
AfterList(b) ==
    CASE b = "delete" -> "delete_prompt"
      [] b = "setup" -> "setup_prompt"
      [] OTHER -> "return"

\* Where main goes on when delete_all_rules has returned.
AfterDelete(b) == IF b = "setup" THEN "add" ELSE "return"

\* The listing without its test for an empty rule list.
ListOutputAlwaysFound(rules) == <<"found", Len(rules)>>

\* What list_existing_rules prints for the rules of a successful response.
ListOutput(rules) ==
    IF Len(rules) > 0 THEN <<"found", Len(rules)>> ELSE <<"norules", 0>>

ReadOutcomes == {"ok", "api_error", "transport", "interrupt"}

list_existing_rules ==
    /\ pc = "list"
    /\ \E o \in ReadOutcomes :
         LET raised == Raises(o)
             caught == ExceptException(raised)
         IN  /\ callLog' = Append(callLog, <<"GET", 0>>)
             /\ lastCall' = Call("list", "entrypoint", o, Report(raised, caught))
             /\ opTrail' = Trail("list", raised = "none")
             /\ interrupted' = (interrupted \/ o = "interrupt")
             /\ IF raised = "none"
                THEN /\ listOut' = ListOutput(ruleset)
                     /\ pc' = AfterList(branch)
                     /\ UNCHANGED <<exitCode, endMsg>>
                ELSE IF caught
                THEN /\ listOut' = <<"failed", 0>>
                     /\ pc' = AfterList(branch)
                     /\ UNCHANGED <<exitCode, endMsg>>
                ELSE /\ Propagate(raised)
                     /\ UNCHANGED listOut
    /\ UNCHANGED << apiToken, zoneId, args, branch, i, rulesetId, confirm,
                    ruleset, inputFailed, addBase >>

\* input() raising: EOFError is an Exception, the interrupt is not.
InputRaises(a) ==
    CASE a = EofInput -> "Exception"
      [] a = IntInput -> "KeyboardInterrupt"
      [] OTHER -> "none"

\* The --delete branch after the listing: prompt, then delete or cancel.
DeletePrompt ==
    /\ pc = "delete_prompt"
    /\ \E a \in Inputs :
         LET raised == InputRaises(a)
         IN  /\ interrupted' = (interrupted \/ a = IntInput)
             /\ inputFailed' = (inputFailed \/ a = EofInput)
             /\ IF raised # "none"
                THEN Propagate(raised) /\ UNCHANGED confirm
                ELSE /\ confirm' = a
                     /\ UNCHANGED exitCode
                     /\ IF IsYes(a)
                        THEN pc' = "delete" /\ UNCHANGED endMsg
                        ELSE pc' = "return" /\ endMsg' = "cancelled"
    /\ UNCHANGED << apiToken, zoneId, args, branch, i, rulesetId, ruleset,
                    callLog, lastCall, listOut, addBase, opTrail >>

\* Where the --setup branch goes on once confirmed or forced.
AfterConfirm(a) == IF "--delete" \in a THEN "delete" ELSE "add"

\* The --setup branch after the listing: the warning, the prompt unless
\* --force, sys.exit(0) on a decline, then the test for --delete.
SetupConfirm ==
    /\ pc = "setup_prompt"
    /\ IF "--force" \in args
       THEN /\ pc' = AfterConfirm(args)
            /\ UNCHANGED <<confirm, exitCode, endMsg, interrupted, inputFailed>>
       ELSE \E a \in Inputs :
              LET raised == InputRaises(a)
              IN  /\ interrupted' = (interrupted \/ a = IntInput)
                  /\ inputFailed' = (inputFailed \/ a = EofInput)
                  /\ IF raised # "none"
                     THEN Propagate(raised) /\ UNCHANGED confirm
                     ELSE /\ confirm' = a
                          /\ IF IsYes(a)
                             THEN /\ pc' = AfterConfirm(args)
                                  /\ UNCHANGED <<exitCode, endMsg>>
                             ELSE /\ pc' = "exit"
                                  /\ exitCode' = 0
                                  /\ endMsg' = "cancelled"
    /\ UNCHANGED << apiToken, zoneId, args, branch, i, rulesetId, ruleset,
                    callLog, lastCall, listOut, addBase, opTrail >>

delete_all_rules ==
    /\ pc = "delete"
    /\ \E o \in Outcomes :
         LET raised == Raises(o)
             caught == ExceptException(raised)
         IN  /\ callLog' = Append(callLog, <<"PUT", 0>>)
             /\ ruleset' = Provider("PUT", <<>>, o, ruleset)
             /\ lastCall' = Call("delete", "entrypoint", o, Report(raised, caught))
             /\ opTrail' = Trail("delete", raised = "none")
             /\ interrupted' = (interrupted \/ o = "interrupt")
             /\ IF raised = "none" \/ caught
                THEN pc' = AfterDelete(branch) /\ UNCHANGED <<exitCode, endMsg>>
                ELSE Propagate(raised)
    /\ UNCHANGED << apiToken, zoneId, args, branch, i, rulesetId, confirm,
                    listOut, inputFailed, addBase >>

\* The endpoint a rule is POSTed to.
Endpoint(id) == IF id # "None" THEN "rules" ELSE "entrypoint"

\* add_security_rules up to its loop: the lookup of the ruleset id.
add_lookup ==
    /\ pc = "add"
    /\ \E o \in ReadOutcomes :
         LET raised == Raises(o)
             caught == BareExcept(raised)
         IN  /\ callLog' = Append(callLog, <<"GET", 0>>)
             /\ lastCall' =
                  Call("lookup", "entrypoint", o,
                       IF raised = "none" THEN "success" ELSE "none")
             /\ opTrail' = Trail("add", TRUE)
             /\ addBase' = Len(ruleset)
             /\ interrupted' = (interrupted \/ o = "interrupt")
             /\ IF raised = "none" \/ caught
                THEN /\ rulesetId' = IF raised = "none" THEN "id" ELSE "None"
                     /\ i' = 1
                     /\ pc' = "add_loop"
                     /\ UNCHANGED <<exitCode, endMsg>>
                ELSE Propagate(raised) /\ UNCHANGED <<rulesetId, i>>
    /\ UNCHANGED << apiToken, zoneId, args, branch, confirm, ruleset, listOut,
                    inputFailed >>

\* The table walked from its last rule to its first.
RuleAtReversed(k) == SECURITY_RULES[NumRules + 1 - k]

\* The rule the k-th iteration of the loop submits.
RuleAt(k) == SECURITY_RULES[k]

\* The loop left at the first failed rule.
NextRuleBreak(k, failed) == IF failed THEN NumRules + 1 ELSE k + 1

\* The iteration that follows the k-th one.
NextRule(k, failed) == k + 1

\* One iteration of the loop of add_security_rules; the last one also
\* prints the closing line and returns to main.
add_rule ==
    /\ pc = "add_loop"
    /\ i \in 1..NumRules
    /\ \E o \in Outcomes :
         LET raised == Raises(o)
             caught == ExceptException(raised)
             next == NextRule(i, raised # "none")
         IN  /\ Possible("POST", o, ruleset)
             /\ callLog' = Append(callLog, <<"POST", i>>)
             /\ ruleset' = Provider("POST", RuleAt(i), o, ruleset)
             /\ lastCall' =
                  Call("add_rule", Endpoint(rulesetId), o, Report(raised, caught))
             /\ interrupted' = (interrupted \/ o = "interrupt")
             /\ IF raised = "none" \/ caught
                THEN /\ UNCHANGED <<exitCode, endMsg>>
                     /\ IF next <= NumRules
                        THEN i' = next /\ pc' = "add_loop" /\ UNCHANGED rulesetId
                        ELSE i' = 1 /\ pc' = "config" /\ rulesetId' = "None"
                ELSE Propagate(raised) /\ UNCHANGED <<i, rulesetId>>
    /\ UNCHANGED << apiToken, zoneId, args, branch, confirm, listOut,
                    inputFailed, addBase, opTrail >>

\* One iteration of the loop of configure_security_settings.
configure_security_settings ==
    /\ pc = "config"
    /\ i \in 1..NumSettings
    /\ \E o \in ReadOutcomes :
         LET raised == Raises(o)
             caught == ExceptException(raised)
         IN  /\ callLog' = Append(callLog, <<"PATCH", i>>)
             /\ lastCall' = Call("setting", "settings", o, Report(raised, caught))
             /\ opTrail' = IF i = 1 THEN Trail("config", TRUE) ELSE opTrail
             /\ interrupted' = (interrupted \/ o = "interrupt")
             /\ IF raised = "none" \/ caught
                THEN /\ UNCHANGED <<exitCode, endMsg>>
                     /\ IF i < NumSettings
                        THEN i' = i + 1 /\ pc' = "config"
                        ELSE i' = 0 /\ pc' = "return"
                ELSE Propagate(raised) /\ UNCHANGED i
    /\ UNCHANGED << apiToken, zoneId, args, branch, rulesetId, confirm,
                    ruleset, listOut, inputFailed, addBase >>

\* main returns (after the completion summary in the --setup branch) and
\* the process ends with status 0.
Finish ==
    /\ pc = "return"
    /\ pc' = "exit"
    /\ exitCode' = 0
    /\ endMsg' = IF branch = "setup" THEN "setup_complete" ELSE endMsg
    /\ UNCHANGED << apiToken, zoneId, args, branch, i, rulesetId, confirm,
                    ruleset, callLog, lastCall, listOut, interrupted,
                    inputFailed, addBase, opTrail >>

\* The script is invoked again; the provider keeps its ruleset.
Restart ==
    /\ pc = "exit"
    /\ Len(ruleset) <= MaxPrior
    /\ args' \in SUBSET Flags
    /\ pc' = "main"
    /\ branch' = "none"
    /\ i' = 0
    /\ rulesetId' = "None"
    /\ confirm' = Unset
    /\ callLog' = <<>>
    /\ lastCall' = NoCall
    /\ endMsg' = "none"
    /\ exitCode' = -1
    /\ interrupted' = FALSE
    /\ inputFailed' = FALSE
    /\ addBase' = 0
    /\ UNCHANGED <<apiToken, zoneId, ruleset, listOut, opTrail>>

Next ==
    \/ Validate
    \/ Dispatch
    \/ list_existing_rules
    \/ DeletePrompt
    \/ SetupConfirm
    \/ delete_all_rules
    \/ add_lookup
    \/ add_rule
    \/ configure_security_settings
    \/ Finish
    \/ Restart

Spec == Init /\ [][Next]_vars

\* ----------------------------------------------------------- vocabulary

\* The spellings of "yes" that differ only in case.
YesSpellings ==
    { <<a, b, c>> : a \in {"y", "Y"}, b \in {"e", "E"}, c \in {"s", "S"} }

\* The methods of the calls of this invocation, in the order issued.
Methods == [k \in 1..Len(callLog) |-> callLog[k][1]]

Issued(method) == \E k \in 1..Len(callLog) : callLog[k][1] = method

IsMethod(method, c) == c[1] = method

\* The items of the calls of one method, in the order issued.
ItemsOf(method) ==
    LET sel == SelectSeq(callLog, LAMBDA c : IsMethod(method, c))
    IN  [k \in 1..Len(sel) |-> sel[k][2]]

Table == [k \in 1..NumRules |-> k]

IsPrefix(s, t) == Len(s) <= Len(t) /\ \A k \in 1..Len(s) : s[k] = t[k]

Repeat(x, n) == [k \in 1..n |-> x]

CredentialsValid == apiToken # TOKEN_PLACEHOLDER /\ zoneId # ZONE_PLACEHOLDER

\* add_security_rules has made its lookup in this invocation.
AddStarted == Len(ItemsOf("GET")) >= 2

\* add_security_rules has returned in this invocation.
AddReturned == pc = "config" \/ Issued("PATCH")

\* The position of a rule in SECURITY_RULES.
IndexOf(r) == CHOOSE k \in 1..NumRules : SECURITY_RULES[k] = r

\* The rules the provider appended since add_security_rules started.
Appended == SubSeq(ruleset, addBase + 1, Len(ruleset))

\* ------------------------------------------------------------------ claims

\* C1: in every invocation whose arguments contain --setup, once the run is
\* confirmed ("yes" at the prompt, or --force), add_security_rules runs and
\* configure_security_settings runs after it, and with --delete also given
\* delete_all_rules runs before add_security_rules.  Stated of an invocation
\* that ended without an interrupt or an input failure, and of the argument
\* lists the usage text documents for --setup (those without --list).
C1_SetupAlwaysAddsAndConfigures ==
    ( /\ pc = "exit"
      /\ CredentialsValid
      /\ "--setup" \in args
      /\ "--list" \notin args
      /\ ("--force" \in args \/ confirm \in YesSpellings)
      /\ ~interrupted
      /\ ~inputFailed )
    => /\ ItemsOf("POST") = Table
       /\ Len(ItemsOf("PATCH")) = NumSettings
       /\ \A p, q \in 1..Len(callLog) :
            (callLog[p][1] = "POST" /\ callLog[q][1] = "PATCH") => p < q
       /\ "--delete" \in args =>
            \E p \in 1..Len(callLog) :
              /\ callLog[p][1] = "PUT"
              /\ \A q \in 1..Len(callLog) : callLog[q][1] = "POST" => p < q

\* C2: while either credential is its placeholder, no HTTP call is issued
\* whatever the arguments, and the process ends with exit status 1.
C2_PlaceholderNoCallExit1 ==
    (apiToken = TOKEN_PLACEHOLDER \/ zoneId = ZONE_PLACEHOLDER)
    => /\ callLog = <<>>
       /\ pc \in {"main", "exit"}
       /\ pc = "exit" => (exitCode = 1 /\ endMsg = "config_error")

C2_Witness ==
    /\ pc = "exit"
    /\ exitCode = 1
    /\ apiToken # TOKEN_PLACEHOLDER
    /\ zoneId = ZONE_PLACEHOLDER
    /\ args = {"--setup", "--force"}
    /\ callLog = <<>>

\* C3: with --setup and without --force, an answer at the confirmation
\* prompt other than "yes" in any case leaves the run with no POST, no PUT
\* and no PATCH, and the process ends with exit status 0.
C3_DeclineMutatesNothing ==
    ( /\ "--setup" \in args
      /\ "--force" \notin args
      /\ confirm # Unset
      /\ confirm \notin YesSpellings )
    => /\ ~Issued("POST") /\ ~Issued("PUT") /\ ~Issued("PATCH")
       /\ pc \in {"return", "exit"}
       /\ pc = "exit" => exitCode = 0

C3_Witness ==
    /\ pc = "exit"
    /\ exitCode = 0
    /\ args = {"--setup"}
    /\ confirm = <<"y">>
    /\ endMsg = "cancelled"
    /\ Methods = <<"GET">>

\* C4: add_security_rules POSTs the five rules once each, in turn, never
\* retrying and never skipping one, whatever the earlier attempts came to:
\* when it has returned, all five were attempted.
C4_EveryRuleAttemptedOnce ==
    /\ IsPrefix(ItemsOf("POST"), Table)
    /\ AddReturned => ItemsOf("POST") = Table

\* Rule 3 failed, rules 4 and 5 were attempted after it and accepted.
C4_Witness ==
    /\ pc = "config"
    /\ addBase = 0
    /\ ItemsOf("POST") = Table
    /\ ruleset = <<1, 2, 4, 5>>

\* C5: for every HTTP call of every operation, a response with success
\* false or absent makes the operation report an error for that call.
C5_ApiErrorAlwaysReported ==
    lastCall.outcome = "api_error" => lastCall.report = "error"

\* C6: a keyboard interrupt raised at any point of a run reaches the
\* top-level handler: the run ends there with the cancellation message and
\* exit status 0, and issues no further call.
C6_InterruptEndsRun ==
    interrupted =>
      /\ pc = "exit"
      /\ exitCode = 0
      /\ endMsg = "cancelled_by_user"

\* The calls the arguments and the answer at the prompt schedule.
Schedule ==
    LET yes == confirm \in YesSpellings
    IN  IF "--list" \in args THEN <<"GET">>
        ELSE IF "--delete" \in args
        THEN IF yes THEN <<"GET", "PUT">> ELSE <<"GET">>
        ELSE IF "--setup" \in args
        THEN IF "--force" \in args \/ yes
             THEN <<"GET", "GET">> \o Repeat("POST", NumRules)
                                   \o Repeat("PATCH", NumSettings)
             ELSE <<"GET">>
        ELSE <<>>

\* C7: with valid credentials and no interrupt or input failure, no failed
\* provider call aborts the run: the process ends with exit status 0 having
\* issued every call its arguments schedule; exit status 1 comes only from
\* the pre-flight credential check.
C7_FailuresNeverAbort ==
    (pc = "exit" /\ ~interrupted /\ ~inputFailed)
    => IF CredentialsValid
       THEN exitCode = 0 /\ Methods = Schedule
       ELSE exitCode = 1 /\ endMsg = "config_error"

\* The listing and the last setting failed, every call was still issued.
C7_Witness ==
    /\ pc = "exit"
    /\ exitCode = 0
    /\ endMsg = "setup_complete"
    /\ listOut[1] = "failed"
    /\ lastCall.outcome = "transport"
    /\ Len(callLog) = 2 + NumRules + NumSettings

\* The ruleset held no rule of the table when add_security_rules started.
NoTableRuleBefore ==
    \A p \in 1..addBase : p <= Len(ruleset) => ruleset[p] \notin 1..NumRules

C9_ListAfterDeleteIsEmpty ==
    ( /\ opTrail[1].op = "delete"
      /\ opTrail[2].op = "list" /\ opTrail[2].ok )
    => listOut = <<"norules", 0>>

\* C9 as amended: when list_existing_rules runs right after a
\* delete_all_rules whose PUT succeeded, and its own GET succeeds, it
\* prints the no-rules message and enumerates no rule, whatever the
\* provider held before the delete.
C9_ListAfterDeleteOk ==
    ( /\ opTrail[1].op = "delete" /\ opTrail[1].ok
      /\ opTrail[2].op = "list" /\ opTrail[2].ok )
    => listOut = <<"norules", 0>>

C9_Witness ==
    /\ opTrail[1] = [op |-> "delete", ok |-> TRUE, before |-> 1]
    /\ opTrail[2] = [op |-> "list", ok |-> TRUE, before |-> 0]
    /\ listOut = <<"norules", 0>>
    /\ pc = "exit"

====
